---- MODULE Spec2Model ----
(***************************************************************************)
(* The ProfileContainer widget of the landing page: a list of profiles,    *)
(* an add-profile modal form that looks a username up with fetch, and a    *)
(* Matter.js physics world that is created by a React effect when the      *)
(* container scrolls into view and is rebuilt whenever the list or         *)
(* effectStarted changes.  The browser is the environment: it delivers     *)
(* scroll and resize events, animation frames, timer callbacks and the     *)
(* answers of the lookups.                                                 *)
(*                                                                         *)
(* One action is one browser task: the event handler (or callback), the    *)
(* React render it causes and the effects of that render, cleanups first.  *)
(***************************************************************************)
EXTENDS Integers, Sequences, FiniteSets, TLC

(***************************************************************************)
(* Bounds of the model                                                     *)
(***************************************************************************)
\* profiles added by the form that the list and the lookups in flight hold
MaxAdded == 2
\* seeded profiles that may be missing from the list at one time
MaxRemoved == 1
\* update loops (one is started per physics world ever created)
MaxLoops == 3
\* restart timers of the resize handlers pending at one time
MaxTimers == 4
\* time that passes in one Tick, in ms
TickMs == 50
\* period of a fast display (120 Hz), in ms, rounded down
FastFrameMs == 8

(***************************************************************************)
(* Constants of the program                                                *)
(***************************************************************************)
\* setTimeout(() => setEffectStarted(true), 100)
ResizeDelayMs == 100
\* one frame at 60 FPS: 16.666 ms, rounded up to whole ms
FramePeriodMs == 17
\* the two effects that each register a handleResize listener
ResizeEffects == 2

\* values Date.now() returns in a session (ms since the epoch, abstracted)
ClockValues == {1001, 1002}
\* display periods: a 120 Hz and a 60 Hz display
FrameIntervals == {FastFrameMs, FramePeriodMs}
\* viewport sizes a resize event can bring
Sizes == {1, 2}
\* what the user can put in the username field
TypedValues == {<<>>, <<" ">>, <<" ", "a", " ">>}
\* how a lookup ends: HTTP 200, HTTP 404, another HTTP error, fetch rejects
Outcomes == {"ok", "notfound", "httperror", "neterror"}

NoWorld == [gen |-> 0, size |-> 0, bodies |-> <<>>]

Min(a, b) == IF a < b THEN a ELSE b
Max(a, b) == IF a > b THEN a ELSE b

VARIABLES
    phase,          \* "new" (state initialised), "mounted", "unmounted"
    refs,           \* containerRef/profilesRef/canvasContainerRef are attached
    profiles,       \* useState: the list, a sequence of [id, name]
    formData,       \* useState: formData.username
    isModalOpen,    \* useState
    isLoading,      \* useState
    error,          \* useState
    validationShown,\* the browser shows "fill out this field" on the input
    effectStarted,  \* useState
    isScrolling,    \* useState
    inflight,       \* fetches sent and not yet settled: the usernames asked
    requests,       \* fetches sent so far (saturates at MaxAdded + 1)
    dom,            \* ids of the .profile-item elements in profilesRef
    world,          \* the live physics world, or NoWorld
    worldsCreated,  \* physics worlds created so far
    canvases,       \* canvases that are children of canvasContainerRef
    loops,          \* worlds whose updateLoop is still rescheduling itself
    crashed,        \* an effect threw (null ref, removeChild of a non-child)
    scrollListener, \* throttledScrollHandler is registered on window
    ticking,        \* the scroll effect's `ticking`
    scrollRaf,      \* animation-frame callbacks of the scroll listener pending
    scrollTimeout,  \* the timer of scrollTimeoutRef is pending
    resizeListeners,\* handleResize listeners registered on window
    timers,         \* ms left of each pending restart timer of handleResize
    viewport,       \* size of the viewport
    inViewport,     \* the container intersects the viewport
    sinceResize,    \* ms since the latest resize event (capped)
    sinceRun,       \* ms since the latest run of updateLoop's body (capped)
    lastGap         \* ms between the two latest runs of the body (capped)

formVars == <<formData, isModalOpen, isLoading, error, validationShown, inflight,
              requests>>
listVars == <<profiles, dom>>
physVars == <<world, worldsCreated, canvases, loops, crashed, sinceRun, lastGap>>
scrollVars == <<scrollListener, ticking, scrollRaf, scrollTimeout, isScrolling>>
resizeVars == <<resizeListeners, timers, sinceResize>>
envVars == <<viewport, inViewport>>
vars == <<phase, refs, effectStarted, formVars, listVars, physVars, scrollVars,
          resizeVars, envVars>>

(***************************************************************************)
(* Pure helpers                                                            *)
(***************************************************************************)
RECURSIVE TrimStart(_)
TrimStart(s) == IF s # <<>> /\ Head(s) = " " THEN TrimStart(Tail(s)) ELSE s

RECURSIVE TrimEnd(_)
TrimEnd(s) ==
    IF s # <<>> /\ s[Len(s)] = " " THEN TrimEnd(SubSeq(s, 1, Len(s) - 1)) ELSE s

\* String.prototype.trim
Trim(s) == TrimEnd(TrimStart(s))

\* useState([...]): the three seeded profiles
SeedProfiles ==
    << [id |-> 1, name |-> <<"t">>], [id |-> 2, name |-> <<"g">>],
       [id |-> 3, name |-> <<"y">>] >>

SeedIds == {SeedProfiles[i].id : i \in 1..Len(SeedProfiles)}

\* newProfile: id from Date.now(), name from the answer (its login here)
NewProfile(now, login) == [id |-> now, name |-> login]

AppendProfileTwice(prevProfiles, newProfile) ==
    Append(Append(prevProfiles, newProfile), newProfile)

PrependProfile(prevProfiles, newProfile) == <<newProfile>> \o prevProfiles

\* setProfiles((prevProfiles) => [...prevProfiles, newProfile])
AppendProfile(prevProfiles, newProfile) == Append(prevProfiles, newProfile)

\* setProfiles(prevProfiles => prevProfiles.filter(profile => profile.id !== profileId))
FilterProfiles(prevProfiles, profileId) ==
    SelectSeq(prevProfiles, LAMBDA profile : profile.id # profileId)

EmptyUsernameError == "Please enter a GitHub username"
NotFoundError == "GitHub user not found"
FetchFailedError == "Failed to fetch profile data"
\* err.message of the TypeError fetch rejects with
NetworkError == "Failed to fetch"

ErrorMessageGeneric(outcome) ==
    IF outcome = "neterror" THEN NetworkError ELSE FetchFailedError

\* the message the catch block receives for a lookup that did not succeed
ErrorMessage(outcome) ==
    CASE outcome = "notfound" -> NotFoundError
      [] outcome = "httperror" -> FetchFailedError
      [] OTHER -> NetworkError

RenderProfilesStale(ps) == [i \in 1..Len(SeedProfiles) |-> SeedProfiles[i].id]

\* renderProfiles: one .profile-item per entry, in list order
RenderProfiles(ps) == [i \in 1..Len(ps) |-> ps[i].id]

\* containerRef.current.getBoundingClientRect(): the container is h-screen
\* and as wide as the page
ContainerRect(size) == [width |-> size, height |-> size]

(***************************************************************************)
(* The physics effect                                                      *)
(***************************************************************************)
Phys ==
    [world |-> world, worldsCreated |-> worldsCreated, canvases |-> canvases,
     loops |-> loops, crashed |-> crashed, sinceRun |-> sinceRun,
     lastGap |-> lastGap]

SetPhys(p) ==
    /\ world' = p.world
    /\ worldsCreated' = p.worldsCreated
    /\ canvases' = p.canvases
    /\ loops' = p.loops
    /\ crashed' = p.crashed
    /\ sinceRun' = p.sinceRun
    /\ lastGap' = p.lastGap

CleanupRemovesCanvasUnguarded(canvasRef) == TRUE

CleanupRemovesCanvasNever(canvasRef) == FALSE

\* if (render.canvas && canvasContainerRef.current)
CleanupRemovesCanvas(canvasRef) == canvasRef

\* the function the physics effect returns; it is registered only by a run
\* of the effect that created a world
PhysicsCleanup(p, canvasRef) ==
    IF p.world = NoWorld THEN p
    ELSE LET remove == CleanupRemovesCanvas(canvasRef)
         IN [p EXCEPT
               !.world = NoWorld,
               !.canvases = IF remove /\ canvasRef /\ p.canvases > 0
                            THEN p.canvases - 1 ELSE p.canvases,
               !.crashed = p.crashed \/ (remove /\ (~canvasRef \/ p.canvases = 0))]

\* the body of the physics effect
PhysicsSetup(p, started, refsOk, domIds, size) ==
    IF ~started THEN p
    ELSE IF ~refsOk THEN [p EXCEPT !.crashed = TRUE]
    ELSE IF ContainerRect(size).width <= 0 \/ ContainerRect(size).height <= 0 THEN p
    ELSE LET g == p.worldsCreated + 1
         IN [p EXCEPT
               !.world = [gen |-> g, size |-> size, bodies |-> domIds],
               !.worldsCreated = g,
               !.canvases = p.canvases + 1,
               \* updateLoop(): the body runs at once and reschedules itself
               !.loops = p.loops \cup {g},
               !.lastGap = p.sinceRun,
               !.sinceRun = 0]

\* React commits a render: effects whose dependencies changed clean up and
\* run again, renderProfiles before the physics effect
Commit(p, started, ps, profilesChanged, size) ==
    LET newDom == IF profilesChanged THEN RenderProfiles(ps) ELSE dom
    IN /\ dom' = newDom
       /\ IF started # effectStarted \/ profilesChanged
          THEN SetPhys(PhysicsSetup(PhysicsCleanup(p, refs), started, refs, newDom, size))
          ELSE SetPhys(p)

\* worlds that are yet to be created by what is already under way
WorldsDue == worldsCreated + Len(inflight) + (IF effectStarted THEN 0 ELSE 1)

AddedCount(ps) == Cardinality({i \in 1..Len(ps) : ps[i].id \notin SeedIds})
RemovedCount(ps) == Cardinality({s \in SeedIds : \A i \in 1..Len(ps) : ps[i].id # s})

(***************************************************************************)
(* Initial state: the useState and useRef initial values                   *)
(***************************************************************************)
Init ==
    /\ phase = "new"
    /\ refs = FALSE
    /\ profiles = SeedProfiles
    /\ formData = <<>>
    /\ isModalOpen = FALSE
    /\ isLoading = FALSE
    /\ error = ""
    /\ validationShown = FALSE
    /\ effectStarted = FALSE
    /\ isScrolling = FALSE
    /\ inflight = <<>>
    /\ requests = 0
    /\ dom = <<>>
    /\ world = NoWorld
    /\ worldsCreated = 0
    /\ canvases = 0
    /\ loops = {}
    /\ crashed = FALSE
    /\ scrollListener = FALSE
    /\ ticking = FALSE
    /\ scrollRaf = 0
    /\ scrollTimeout = FALSE
    /\ resizeListeners = 0
    /\ timers = <<>>
    /\ viewport = 1
    /\ inViewport \in BOOLEAN
    /\ sinceResize = ResizeDelayMs
    /\ sinceRun = FramePeriodMs
    /\ lastGap = FramePeriodMs

(***************************************************************************)
(* Mount and unmount                                                       *)
(***************************************************************************)
ScrollStartsAlways(refsOk, inView) == refsOk

\* handleScroll: does it start the effect?
ScrollStarts(refsOk, inView) == refsOk /\ inView

\* First commit.  The effects run in the order they are written:
\* renderProfiles, the scroll effect (which registers the listener and calls
\* handleScroll once), the resize effects, the physics effect.
Mount ==
    /\ phase = "new"
    /\ phase' = "mounted"
    /\ refs' = TRUE
    /\ scrollListener' = TRUE
    /\ resizeListeners' = ResizeEffects
    /\ LET starts == ScrollStarts(TRUE, inViewport)
       IN /\ effectStarted' = starts
          /\ isScrolling' = starts
          /\ scrollTimeout' = starts
          /\ dom' = RenderProfiles(profiles)
          /\ SetPhys(PhysicsSetup(Phys, starts, TRUE, RenderProfiles(profiles), viewport))
    /\ UNCHANGED <<profiles, formVars, ticking, scrollRaf, timers,
                   sinceResize, envVars>>

\* The page goes away.  React detaches the refs, then runs the cleanups of
\* the effects.  Nothing cancels the animation frames or the restart timers.
Unmount ==
    /\ phase = "mounted"
    /\ phase' = "unmounted"
    /\ refs' = FALSE
    /\ scrollListener' = FALSE
    /\ scrollTimeout' = FALSE
    /\ resizeListeners' = 0
    /\ SetPhys(PhysicsCleanup(Phys, FALSE))
    /\ validationShown' = FALSE
    /\ UNCHANGED <<effectStarted, isScrolling, formData, isModalOpen, isLoading,
                   error, inflight, requests, listVars, ticking, scrollRaf,
                   timers, sinceResize, envVars>>

(***************************************************************************)
(* The add-profile form                                                    *)
(***************************************************************************)
OpenModalKeepsError ==
    /\ phase = "mounted"
    /\ isModalOpen' = TRUE
    /\ formData' = <<>>
    /\ validationShown' = FALSE
    /\ UNCHANGED <<phase, refs, effectStarted, error, isLoading, inflight, requests,
                   listVars, physVars, scrollVars, resizeVars, envVars>>

\* onClick of "Add Your Profile"
OpenModal ==
    /\ phase = "mounted"
    /\ isModalOpen' = TRUE
    /\ error' = ""
    /\ formData' = <<>>
    /\ validationShown' = FALSE
    /\ UNCHANGED <<phase, refs, effectStarted, isLoading, inflight, requests,
                   listVars, physVars, scrollVars, resizeVars, envVars>>

\* onClose of the Modal: a click on the backdrop or on X
CloseModal ==
    /\ phase = "mounted"
    /\ isModalOpen
    /\ isModalOpen' = FALSE
    /\ error' = ""
    /\ formData' = <<>>
    /\ validationShown' = FALSE
    /\ UNCHANGED <<phase, refs, effectStarted, isLoading, inflight, requests,
                   listVars, physVars, scrollVars, resizeVars, envVars>>

\* onClick of Cancel, which is disabled={isLoading}
Cancel ==
    /\ phase = "mounted"
    /\ isModalOpen
    /\ ~isLoading
    /\ isModalOpen' = FALSE
    /\ error' = ""
    /\ formData' = <<>>
    /\ validationShown' = FALSE
    /\ UNCHANGED <<phase, refs, effectStarted, isLoading, inflight, requests,
                   listVars, physVars, scrollVars, resizeVars, envVars>>

InputChangeKeepsError(value) ==
    /\ phase = "mounted"
    /\ isModalOpen
    /\ ~isLoading
    /\ formData' = value
    /\ validationShown' = FALSE
    /\ UNCHANGED <<phase, refs, effectStarted, isModalOpen, isLoading, error,
                   inflight, requests, listVars, physVars, scrollVars, resizeVars,
                   envVars>>

\* handleInputChange; the input is disabled={isLoading}
InputChange(value) ==
    /\ phase = "mounted"
    /\ isModalOpen
    /\ ~isLoading
    /\ formData' = value
    /\ error' = IF error # "" THEN "" ELSE error
    /\ validationShown' = FALSE
    /\ UNCHANGED <<phase, refs, effectStarted, isModalOpen, isLoading, inflight,
                   requests, listVars, physVars, scrollVars, resizeVars, envVars>>

SubmitEnabledAlways(loading) == TRUE

\* the submit button is disabled={isLoading}
SubmitEnabled(loading) == ~loading

RequiredSatisfiedAlways(value) == TRUE

\* the input is `required`: the browser does not fire the submit event of a
\* form whose required field is the empty string, it shows its own message
RequiredSatisfied(value) == value # <<>>

\* A click on the submit button: the browser's validation of the form,
\* then handleAddProfile up to the await of fetch
Submit ==
    /\ phase = "mounted"
    /\ isModalOpen
    /\ SubmitEnabled(isLoading)
    /\ validationShown' = ~RequiredSatisfied(formData)
    /\ IF ~RequiredSatisfied(formData)
       THEN UNCHANGED <<error, isLoading, inflight, requests>>
       ELSE IF Trim(formData) = <<>>
       THEN /\ error' = EmptyUsernameError
            /\ UNCHANGED <<isLoading, inflight, requests>>
       ELSE /\ AddedCount(profiles) + Len(inflight) < MaxAdded
            /\ WorldsDue < MaxLoops
            /\ isLoading' = TRUE
            /\ error' = ""
            /\ inflight' = Append(inflight, Trim(formData))
            /\ requests' = Min(requests + 1, MaxAdded + 1)
    /\ UNCHANGED <<phase, refs, effectStarted, formData, isModalOpen, listVars,
                   physVars, scrollVars, resizeVars, envVars>>

RefetchOnFailure(outcome, username) ==
    IF outcome = "ok" THEN <<>> ELSE <<username>>

\* the requests the catch block sends: it only calls setError
Refetch(outcome, username) == <<>>

LoadingAfterOnlySuccess(outcome) == outcome # "ok"

LoadingAfterOnlyFailure(outcome) == outcome = "ok"

\* finally { setIsLoading(false) }
LoadingAfter(outcome) == FALSE

\* handleAddProfile from the await of fetch on: the lookup of inflight[k]
\* ends with `outcome` while Date.now() is `now`.  The state setters of a
\* component that is no longer mounted do nothing.
LookupDone(k, outcome, now) ==
    /\ k \in 1..Len(inflight)
    /\ inflight' = SubSeq(inflight, 1, k - 1) \o SubSeq(inflight, k + 1, Len(inflight))
                       \o Refetch(outcome, inflight[k])
    /\ requests' = Min(requests + Len(Refetch(outcome, inflight[k])), MaxAdded + 1)
    /\ IF phase = "mounted"
       THEN /\ isLoading' = LoadingAfter(outcome)
            /\ IF outcome = "ok"
               THEN /\ profiles' = AppendProfile(profiles, NewProfile(now, inflight[k]))
                    /\ formData' = <<>>
                    /\ isModalOpen' = FALSE
                    /\ error' = error
                    /\ Commit(Phys, effectStarted, profiles', TRUE, viewport)
               ELSE /\ error' = ErrorMessage(outcome)
                    /\ UNCHANGED <<profiles, formData, isModalOpen, dom, physVars>>
       ELSE UNCHANGED <<isLoading, profiles, formData, isModalOpen, error, dom, physVars>>
    /\ UNCHANGED <<phase, refs, effectStarted, validationShown, scrollVars,
                   resizeVars, envVars>>

\* handleRemoveProfile, called by the remove button of a rendered profile
RemoveProfile(profileId) ==
    /\ phase = "mounted"
    /\ \E i \in 1..Len(dom) : dom[i] = profileId
    /\ RemovedCount(FilterProfiles(profiles, profileId)) <= MaxRemoved
    /\ effectStarted => WorldsDue < MaxLoops
    /\ profiles' = FilterProfiles(profiles, profileId)
    /\ Commit(Phys, effectStarted, profiles', TRUE, viewport)
    /\ UNCHANGED <<phase, refs, effectStarted, formVars, scrollVars, resizeVars,
                   envVars>>

(***************************************************************************)
(* Scroll, resize, animation frames and timers                             *)
(***************************************************************************)
ThrottleAdmitsAlways(tk) == TRUE

\* throttledScrollHandler: if (!ticking)
ThrottleAdmits(tk) == ~tk

\* A scroll event: the page moves, and the listener (if still registered)
\* asks for an animation frame unless one is pending
ScrollEvent(inView) ==
    /\ phase # "new"
    /\ inViewport' = inView
    /\ IF scrollListener /\ ThrottleAdmits(ticking)
       THEN /\ scrollRaf' = scrollRaf + 1
            /\ ticking' = TRUE
       ELSE UNCHANGED <<scrollRaf, ticking>>
    /\ UNCHANGED <<phase, refs, effectStarted, formVars, listVars, physVars,
                   scrollListener, scrollTimeout, isScrolling,
                   resizeVars, viewport>>

ResizeResetsAlways(started, refsOk) == refsOk

\* handleResize: if (effectStarted && containerRef.current)
ResizeResets(started, refsOk) == started /\ refsOk

RestartTimersNone(n) == <<>>

\* setTimeout(() => setEffectStarted(true), 100), once per listener
RestartTimers(n) == [i \in 1..n |-> ResizeDelayMs]

\* A resize event.  Every registered handleResize runs with the
\* effectStarted of the latest render; each resets the effect and sets its
\* own restart timer.
ResizeEvent(size) ==
    /\ phase # "new"
    /\ size # viewport
    /\ viewport' = size
    /\ sinceResize' = 0
    /\ IF resizeListeners > 0 /\ ResizeResets(effectStarted, refs)
       THEN /\ Len(timers) + resizeListeners <= MaxTimers
            /\ WorldsDue < MaxLoops
            /\ timers' = timers \o RestartTimers(resizeListeners)
            /\ effectStarted' = FALSE
            /\ Commit(Phys, FALSE, profiles, FALSE, size)
       ELSE UNCHANGED <<timers, effectStarted, dom, physVars>>
    /\ UNCHANGED <<phase, refs, formVars, profiles, scrollVars, resizeListeners,
                   inViewport>>

\* setTimeout(() => setEffectStarted(true), 100) comes due
ResizeTimerFire ==
    /\ timers # <<>>
    /\ Head(timers) = 0
    /\ timers' = Tail(timers)
    /\ IF phase = "mounted"
       THEN /\ effectStarted' = TRUE
            /\ Commit(Phys, TRUE, profiles, FALSE, viewport)
       ELSE UNCHANGED <<effectStarted, dom, physVars>>
    /\ UNCHANGED <<phase, refs, formVars, profiles, scrollVars, resizeListeners,
                   sinceResize, envVars>>

\* setTimeout(() => setIsScrolling(false), 150) comes due (nothing depends
\* on when isScrolling falls, so its delay is not counted)
ScrollTimeoutFire ==
    /\ scrollTimeout
    /\ scrollTimeout' = FALSE
    /\ isScrolling' = IF phase = "mounted" THEN FALSE ELSE isScrolling
    /\ UNCHANGED <<phase, refs, effectStarted, formVars, listVars, physVars,
                   scrollListener, ticking, scrollRaf, resizeVars, envVars>>

\* An animation frame, dt ms after the one before: every update loop runs
\* its body and asks for the next frame, and the pending callbacks of the
\* scroll listener run handleScroll and clear `ticking`.
Frame(dt) ==
    /\ scrollRaf > 0 \/ loops # {}
    /\ LET n == Cardinality(loops)
           elapsed == Min(FramePeriodMs, sinceRun + dt)
           ran == [Phys EXCEPT
                     !.lastGap = IF n = 0 THEN lastGap
                                 ELSE IF n = 1 THEN elapsed ELSE 0,
                     !.sinceRun = IF n = 0 THEN elapsed ELSE 0]
           starts == scrollRaf > 0 /\ ScrollStarts(refs, inViewport)
           started == effectStarted \/ starts
       IN /\ scrollRaf' = 0
          /\ ticking' = IF scrollRaf > 0 THEN FALSE ELSE ticking
          /\ effectStarted' = started
          /\ isScrolling' = (isScrolling \/ starts)
          /\ scrollTimeout' = (scrollTimeout \/ starts)
          /\ Commit(ran, started, profiles, FALSE, viewport)
    /\ UNCHANGED <<phase, refs, formVars, profiles, scrollListener, resizeVars,
                   envVars>>

\* TickMs of time pass
Tick ==
    /\ phase # "new"
    /\ \/ \E i \in 1..Len(timers) : timers[i] > 0
       \/ sinceResize < ResizeDelayMs
    /\ timers' = [i \in 1..Len(timers) |-> Max(0, timers[i] - TickMs)]
    /\ sinceResize' = Min(ResizeDelayMs, sinceResize + TickMs)
    /\ UNCHANGED <<phase, refs, effectStarted, formVars, listVars, physVars,
                   scrollVars, resizeListeners, envVars>>

(***************************************************************************)
(* Specifications                                                          *)
(***************************************************************************)
\* a username that is not blank once trimmed
SomeUsername == <<" ", "a", " ">>

SomeClock == CHOOSE now \in ClockValues : TRUE

\* The user works the form and the list while the page is scrolled and
\* animation frames run.
Next ==
    \/ Mount
    \/ Unmount
    \/ OpenModal
    \/ CloseModal
    \/ Cancel
    \/ \E value \in TypedValues : InputChange(value)
    \/ Submit
    \/ \E k \in 1..Len(inflight), outcome \in Outcomes, now \in ClockValues :
          LookupDone(k, outcome, now)
    \/ \E profileId \in SeedIds \cup ClockValues : RemoveProfile(profileId)
    \/ \E inView \in BOOLEAN : ScrollEvent(inView)
    \/ ScrollTimeoutFire
    \/ \E dt \in FrameIntervals : Frame(dt)

Spec == Init /\ [][Next]_vars

\* The window is resized and scrolled, time passes and frames run while
\* profiles are added and removed.
PhysNext ==
    \/ Mount
    \/ Unmount
    \/ OpenModal
    \/ InputChange(SomeUsername)
    \/ Submit
    \/ \E k \in 1..Len(inflight) : LookupDone(k, "ok", SomeClock)
    \/ \E profileId \in {SeedProfiles[Len(SeedProfiles)].id, SomeClock} :
          RemoveProfile(profileId)
    \/ \E inView \in BOOLEAN : ScrollEvent(inView)
    \/ \E size \in Sizes : ResizeEvent(size)
    \/ ResizeTimerFire
    \/ ScrollTimeoutFire
    \/ \E dt \in FrameIntervals : Frame(dt)
    \/ Tick

PhysSpec == Init /\ [][PhysNext]_vars

\* The window is resized and scrolled while a profile may be removed; time
\* passes and the browser runs the timers that are due.
LiveNext ==
    \/ Mount
    \/ Unmount
    \/ RemoveProfile(SeedProfiles[Len(SeedProfiles)].id)
    \/ \E inView \in BOOLEAN : ScrollEvent(inView)
    \/ \E size \in Sizes : ResizeEvent(size)
    \/ ResizeTimerFire
    \/ ScrollTimeoutFire
    \/ \E dt \in FrameIntervals : Frame(dt)
    \/ Tick

LiveSpec == Init /\ [][LiveNext]_vars /\ WF_vars(Tick) /\ WF_vars(ResizeTimerFire)

\* a lookup in flight is answered, or fails
LookupSettles ==
    \E k \in 1..Len(inflight), outcome \in Outcomes, now \in ClockValues :
        LookupDone(k, outcome, now)

\* The user works the form; every fetch settles in the end (with an answer,
\* or rejected by the browser when the connection fails or times out).
FormNext ==
    \/ Mount
    \/ Unmount
    \/ OpenModal
    \/ CloseModal
    \/ Cancel
    \/ \E value \in TypedValues : InputChange(value)
    \/ Submit
    \/ LookupSettles

FormLiveSpec == Init /\ [][FormNext]_vars /\ WF_vars(LookupSettles)

\* The list is changed, and around that the page is scrolled and resized,
\* the form is opened, typed in and closed, lookups fail, time passes and
\* frames run on a 60 Hz display.
ListNext ==
    \/ Mount
    \/ Unmount
    \/ OpenModal
    \/ CloseModal
    \/ InputChange(SomeUsername)
    \/ Submit
    \/ \E k \in 1..Len(inflight), outcome \in {"ok", "neterror"} :
          LookupDone(k, outcome, SomeClock)
    \/ \E profileId \in {SeedProfiles[Len(SeedProfiles)].id, SomeClock} :
          RemoveProfile(profileId)
    \/ \E inView \in BOOLEAN : ScrollEvent(inView)
    \/ \E size \in Sizes : ResizeEvent(size)
    \/ ResizeTimerFire
    \/ Frame(FramePeriodMs)
    \/ Tick

ListSpec == Init /\ [][ListNext]_vars

(***************************************************************************)
(* Properties                                                              *)
(***************************************************************************)
\* a lookup of the mounted component ends with `outcome`
LookupEnds(outcome) ==
    /\ phase = "mounted"
    /\ \E k \in 1..Len(inflight), now \in ClockValues : LookupDone(k, outcome, now)

RemoveAt(seq, i) == SubSeq(seq, 1, i - 1) \o SubSeq(seq, i + 1, Len(seq))

\* C1: a lookup that succeeds appends exactly one entry, for the username
\* that was looked up, after the entries the list already has, and nothing
\* but a lookup that succeeds makes the list longer.
C1_AppendsExactlyOnce ==
    [][/\ LookupEnds("ok") =>
            /\ Len(profiles') = Len(profiles) + 1
            /\ SubSeq(profiles', 1, Len(profiles)) = profiles
            /\ \E k \in 1..Len(inflight) : profiles'[Len(profiles')].name = inflight[k]
            /\ Len(inflight') = Len(inflight) - 1
       /\ Len(profiles') > Len(profiles) => LookupEnds("ok")]_vars

\* one lookup was sent, it succeeded, and the list has one entry more
C1_Witness ==
    /\ requests = 1
    /\ inflight = <<>>
    /\ Len(profiles) = Len(SeedProfiles) + 1
    /\ AddedCount(profiles) = 1

\* C2: a lookup that is answered 404 sets the error to "GitHub user not
\* found" and leaves the list as it is, and so does the submission that
\* sent it.
C2_NotFoundKeepsList ==
    [][/\ LookupEnds("notfound") =>
            /\ error' = "GitHub user not found"
            /\ profiles' = profiles
       /\ Len(inflight') > Len(inflight) => profiles' = profiles]_vars

\* the message of a 404 is shown in the open form and the list is the seeded one
C2_Witness ==
    /\ error = NotFoundError
    /\ isModalOpen
    /\ ~isLoading
    /\ inflight = <<>>
    /\ requests >= 1
    /\ profiles = SeedProfiles

\* C3: no two entries of the list have the same id.
C3_UniqueIds ==
    \A i, j \in 1..Len(profiles) : i # j => profiles[i].id # profiles[j].id

\* C4: a removal deletes exactly one entry and keeps every other entry in
\* its place.
C4_RemovesExactlyOne ==
    [][Len(profiles') < Len(profiles) =>
          \E i \in 1..Len(profiles) : profiles' = RemoveAt(profiles, i)]_vars

\* C5: once the component is unmounted nothing it registered is pending:
\* no update loop, no animation frame of the scroll listener, no restart
\* timer, no scroll timer, no scroll or resize listener.
C5_AllCancelledOnUnmount ==
    phase = "unmounted" =>
        /\ loops = {}
        /\ scrollRaf = 0
        /\ timers = <<>>
        /\ ~scrollTimeout
        /\ ~scrollListener
        /\ resizeListeners = 0

\* C6: no setup or cleanup of the physics effect dereferences a null ref or
\* removes a canvas that is not a child of the canvas container.
C6_NoCrash == ~crashed

\* the world was rebuilt after a resize and the component was unmounted
\* while restart timers were still pending
C6_Witness ==
    /\ phase = "unmounted"
    /\ worldsCreated >= 2
    /\ timers # <<>>
    /\ viewport # 1
    /\ ~crashed

\* a resize event arrives
ResizeArrives == viewport' # viewport

\* C7: a resize event received while the effect is started stops the effect
\* and destroys the world; as long as the component stays mounted the
\* effect is started again later, with a world created after the resize.
C7_ResizeRecreates ==
    /\ [][(ResizeArrives /\ phase = "mounted" /\ effectStarted) =>
             (~effectStarted' /\ world' = NoWorld /\ timers' # <<>>)]_vars
    /\ \A n \in 1..MaxLoops :
          (phase = "mounted" /\ ~effectStarted /\ worldsCreated = n)
              ~> (phase = "unmounted" \/ (effectStarted /\ world.gen > n))

\* the effect was reset by a resize and has been started again
C7_Witness ==
    /\ phase = "mounted"
    /\ viewport # 1
    /\ effectStarted
    /\ world.gen >= 2
    /\ world.size = viewport

\* the world is recreated by a restart timer
TimerRecreates == Len(timers') < Len(timers) /\ ~effectStarted /\ effectStarted'

\* C8 as claimed: the restart is debounced, that is, a restart timer
\* recreates the world only when no resize event arrived during the whole
\* delay before it.
C8_Debounced == [][TimerRecreates => sinceResize >= ResizeDelayMs]_vars

\* C8 as amended: a resize event that arrives while the effect is stopped
\* changes neither the pending restart timers nor the effect, and one that
\* arrives while it is started destroys the world at once and sets one
\* restart timer per listener, each with the whole delay.
C8_ResizeNotPostponing ==
    [][/\ (ResizeArrives /\ ~effectStarted) =>
             (timers' = timers /\ ~effectStarted' /\ world' = world)
       /\ (ResizeArrives /\ phase = "mounted" /\ effectStarted) =>
             /\ world' = NoWorld
             /\ timers' = timers \o [i \in 1..ResizeEffects |-> ResizeDelayMs]]_vars

\* a resize event has just arrived while a restart timer was under way
C8_Witness ==
    /\ phase = "mounted"
    /\ ~effectStarted
    /\ sinceResize = 0
    /\ timers # <<>>
    /\ Head(timers) < ResizeDelayMs

\* C9: two runs of the update loop's body are at least one 60 Hz frame
\* apart, and at most one loop runs its body in an animation frame.
C9_SixtyFpsCap ==
    /\ lastGap >= FramePeriodMs
    /\ Cardinality(loops) <= 1

\* C10: at most one animation-frame callback of the scroll listener is
\* pending, so that a frame runs handleScroll at most once; one is pending
\* exactly while `ticking` is set.
C10_ScrollThrottled ==
    /\ scrollRaf <= 1
    /\ ticking <=> scrollRaf = 1

\* a frame of the scroll listener is pending after an earlier one started
\* the effect
C10_Witness ==
    /\ scrollListener
    /\ ticking
    /\ scrollRaf = 1
    /\ worldsCreated >= 1

\* a lookup ends without success, whether the component is mounted or not
LookupFails ==
    \E k \in 1..Len(inflight), outcome \in Outcomes \ {"ok"}, now \in ClockValues :
        LookupDone(k, outcome, now)

\* C11: a request is sent only by a submission of a username that is not
\* blank, which sends exactly one, for the trimmed username; a lookup that
\* fails sends none.
C11_NoRetries ==
    [][/\ (requests' # requests \/ Len(inflight') > Len(inflight)) =>
            /\ Submit
            /\ Trim(formData) # <<>>
            /\ inflight' = Append(inflight, Trim(formData))
       /\ LookupFails =>
            /\ Len(inflight') = Len(inflight) - 1
            /\ requests' = requests]_vars

\* one request was sent, it failed with an HTTP error, and none is in flight
C11_Witness ==
    /\ requests = 1
    /\ inflight = <<>>
    /\ error = FetchFailedError
    /\ ~isLoading

\* C12: after a lookup of the mounted component fails (404, another HTTP
\* error, fetch rejected) the error is not empty, the form that shows it is
\* open, and the list is as it was.
C12_FailureShownInForm ==
    [][(phase = "mounted" /\ LookupFails) =>
          /\ error' # ""
          /\ isModalOpen'
          /\ profiles' = profiles]_vars

\* C13: while the component is mounted isLoading is true exactly while a
\* lookup is in flight, and a loading form stops loading in the end unless
\* the component is unmounted first.
C13_LoadingTracksLookup ==
    /\ [](phase = "mounted" => (isLoading <=> inflight # <<>>))
    /\ (phase = "mounted" /\ isLoading) ~> (~isLoading \/ phase = "unmounted")

\* a second lookup has failed and the form is no longer loading
C13_Witness ==
    /\ phase = "mounted"
    /\ requests = 2
    /\ inflight = <<>>
    /\ ~isLoading
    /\ error = NetworkError

\* C19: the list grows only while the add-profile modal is open.
C19_AppendsOnlyWhileOpen ==
    [][Len(profiles') > Len(profiles) => isModalOpen]_vars

\* C20: at most one lookup is in flight.
C20_OneLookupInFlight == Len(inflight) <= 1

\* the second lookup of the session is in flight and the form is loading
C20_Witness ==
    /\ phase = "mounted"
    /\ isModalOpen
    /\ isLoading
    /\ Len(inflight) = 1
    /\ requests = 2

\* C14: the list changes only when a lookup succeeds, which puts the new
\* entry at the end and keeps every entry in its place, or when a profile is
\* removed; no other step changes it.
C14_OnlyAddRemoveChangeList ==
    [][profiles' # profiles =>
          \/ /\ LookupEnds("ok")
             /\ Len(profiles') = Len(profiles) + 1
             /\ \A i \in 1..Len(profiles) : profiles'[i] = profiles[i]
          \/ \E i \in 1..Len(profiles) : RemoveProfile(profiles[i].id)]_vars

\* a profile was added and a seeded one removed, around a resize and a
\* failed lookup
C14_Witness ==
    /\ AddedCount(profiles) = 1
    /\ RemovedCount(profiles) = 1
    /\ viewport # 1
    /\ error = NetworkError

\* handleScroll runs (at mount, or in a frame the scroll listener asked for)
\* while the container intersects the viewport
ChecksInView ==
    /\ inViewport
    /\ \/ phase = "new" /\ phase' = "mounted"
       \/ phase = "mounted" /\ scrollRaf > 0 /\ scrollRaf' = 0

\* effectStarted goes from false to true
EffectStarts == ~effectStarted /\ effectStarted'

\* C15 as claimed: effectStarted becomes true only at a check that finds the
\* container in the viewport.
C15_OnlyScrollStarts == [][EffectStarts => ChecksInView]_vars

\* C15 as amended: effectStarted becomes true only at a check that finds
\* the container in the viewport or when a restart timer of the resize
\* handler fires; the first time it is at such a check; every such check
\* leaves it true; and no world is created or live while it is false.
C15_ScrollOrRestartStarts ==
    /\ [][/\ EffectStarts => (ChecksInView \/ Len(timers') < Len(timers))
          /\ (EffectStarts /\ worldsCreated = 0) => ChecksInView
          /\ ChecksInView => effectStarted'
          /\ worldsCreated' > worldsCreated => effectStarted']_vars
    /\ [](~effectStarted => world = NoWorld)

\* the effect was restarted after a resize and runs while the container is
\* out of the viewport
C15_Witness ==
    /\ phase = "mounted"
    /\ effectStarted
    /\ ~inViewport
    /\ world.gen >= 2
    /\ timers = <<>>
    /\ scrollRaf = 0

\* C16: there are no more update loops rescheduling themselves than live
\* physics worlds, hence at most one.
C16_LoopsWithinWorlds ==
    Cardinality(loops) <= (IF world = NoWorld THEN 0 ELSE 1)

\* C17: the canvas container holds at most one canvas, the canvas of the
\* live world; the live world is the one created last, and while the
\* component is mounted without a live world the container is empty.
C17_OneWorldOneCanvas ==
    /\ canvases <= 1
    /\ world # NoWorld => (canvases = 1 /\ world.gen = worldsCreated)
    /\ (phase = "mounted" /\ world = NoWorld) => canvases = 0

\* the third world is live, rebuilt after a profile was added
C17_Witness ==
    /\ phase = "mounted"
    /\ world.gen >= 3
    /\ canvases = 1
    /\ Len(profiles) > Len(SeedProfiles)

\* C18: the bodies of a live world are the entries of the list, one for
\* one and in order, and a change of the list while a world is live
\* replaces the world by a new one.
C18_BodiesMatchList ==
    /\ [](world # NoWorld =>
            /\ Len(world.bodies) = Len(profiles)
            /\ \A i \in 1..Len(profiles) : world.bodies[i] = profiles[i].id)
    /\ [][(profiles' # profiles /\ world # NoWorld) =>
            (world' # NoWorld /\ world'.gen > world.gen)]_vars

\* a world rebuilt after a resize holds a body for the added profile too
C18_Witness ==
    /\ world # NoWorld
    /\ world.size # 1
    /\ timers = <<>>
    /\ Len(world.bodies) = Len(SeedProfiles) + 1
    /\ AddedCount(profiles) = 1

\* the submit button is clicked while the username is blank
SubmitsBlank == Submit /\ Trim(formData) = <<>>

\* what a blank submission leaves alone
BlankSubmitKeeps ==
    /\ inflight' = inflight
    /\ requests' = requests
    /\ ~isLoading'
    /\ profiles' = profiles
    /\ isModalOpen' = isModalOpen

\* C21 as claimed: a submission of an empty or all-whitespace username sets
\* the error to "Please enter a GitHub username", sends no request, and
\* leaves isLoading false and the list and the modal as they are.
C21_BlankRejectedWithMessage ==
    [][SubmitsBlank => (error' = "Please enter a GitHub username" /\ BlankSubmitKeeps)]_vars

\* C21 as amended: a submission of an all-whitespace username sets the
\* error to "Please enter a GitHub username"; a submission of the empty
\* username is stopped by the browser (the field is required), which shows
\* its own message and leaves the error as it is; neither sends a request
\* nor changes isLoading, the list or the modal.
C21_BlankRejected ==
    [][SubmitsBlank =>
          /\ IF formData = <<>>
             THEN error' = error /\ validationShown'
             ELSE error' = "Please enter a GitHub username" /\ ~validationShown'
          /\ BlankSubmitKeeps]_vars

\* the empty username was submitted: the browser's message is shown and
\* the error is still empty
C21_Witness ==
    /\ phase = "mounted"
    /\ isModalOpen
    /\ validationShown
    /\ formData = <<>>
    /\ error = ""
    /\ requests = 0

\* C22: when a lookup of the mounted component succeeds the modal is
\* closed, the username field is empty, the error is empty and isLoading is
\* false.
C22_SuccessLeavesFormClean ==
    [][LookupEnds("ok") =>
          /\ ~isModalOpen'
          /\ formData' = <<>>
          /\ error' = ""
          /\ ~isLoading']_vars

\* a second profile was added and the form is closed and clean
C22_Witness ==
    /\ phase = "mounted"
    /\ AddedCount(profiles) = 2
    /\ inflight = <<>>
    /\ ~isModalOpen
    /\ formData = <<>>
    /\ error = ""
    /\ ~isLoading

\* C23: whenever the modal opens or closes, and at every click on the Add
\* button, on the backdrop or X, or on Cancel, the error and the username
\* field are empty afterwards.
C23_OpenCloseResetForm ==
    [][(isModalOpen' # isModalOpen \/ OpenModal \/ CloseModal \/ Cancel) =>
          (error' = "" /\ formData' = <<>>)]_vars

\* the modal is open and clean although a lookup failed before
C23_Witness ==
    /\ phase = "mounted"
    /\ isModalOpen
    /\ error = ""
    /\ formData = <<>>
    /\ ~isLoading
    /\ inflight = <<>>
    /\ requests >= 1
    /\ profiles = SeedProfiles

\* C24: after an input change the error is empty and the username field
\* holds the typed value.
C24_TypingClearsError ==
    [][\A value \in TypedValues :
          InputChange(value) => (error' = "" /\ formData' = value)]_vars

\* a username is in the field and no error is shown, after a lookup failed
C24_Witness ==
    /\ phase = "mounted"
    /\ isModalOpen
    /\ formData = <<" ", "a", " ">>
    /\ error = ""
    /\ ~isLoading
    /\ inflight = <<>>
    /\ requests = 1
    /\ profiles = SeedProfiles

====
